---- MODULE Spec2Model ----
(***************************************************************************)
(* The pizza ordering API: one Lambda handler (lambdaHandler) dispatching  *)
(* on method and path, with the validation, pricing and calorie helpers    *)
(* and the DynamoDB "Orders" table it writes to and reads from.            *)
(*                                                                         *)
(* A request body is modelled by what JSON.parse makes of it; a JavaScript *)
(* value is a record with its type, so that truthiness, Object.keys,       *)
(* ?.length and substring are computed as the interpreter computes them.   *)
(* An invocation returns a response envelope or throws; both are outcomes. *)
(***************************************************************************)
EXTENDS Integers, Sequences, FiniteSets, TLC

\* ------------------------------------------------------------------ bounds
\* longest toppings array in a request body
MaxToppings == 2
\* largest payment amount in a request body (the smallest is -1)
MaxAmount == 2
\* number of order ids crypto.randomUUID can still hand out
MaxOrders == 2
\* number of invocations of the handler that can be in flight at once
NumSlots == 2

\* ------------------------------------------------- JavaScript values
\* a property that is not there
undefined == "undefined"
Undefined == [type |-> "undefined", n |-> 0]
\* a string, by its length (payment.token)
String(len) == [type |-> "string", n |-> len]
\* a number, by its value (payment.amount, or a token that is no string)
Number(v) == [type |-> "number", n |-> v]
\* an array, by its length (toppings.meats, ...)
Array(len) == [type |-> "array", n |-> len]

\* !v for a typed value: undefined, "" and 0 are falsy
Falsy(v) ==
  \/ v.type = "undefined"
  \/ v.type = "string" /\ v.n = 0
  \/ v.type = "number" /\ v.n = 0

\* !s for a property held as a string
FalsyStr(s) == s = undefined \/ s = ""

\* v?.length || 0
LengthOr0(v) == IF v.type \in {"array", "string"} THEN v.n ELSE 0

\* ------------------------------------------------- outcomes of a call
Return(statusCode, body) ==
  [kind |-> "response", statusCode |-> statusCode, body |-> body]
Throw(error) == [kind |-> "exception", error |-> error]
IsThrow(r) == r.kind = "exception"
\* a helper's plain return value
Value(v) == [kind |-> "value", value |-> v]

\* ------------------------------------------------- request bodies
sizes == {"small", "medium", "large", "xlarge"}

NoToppings == [type |-> "undefined", meat |-> Undefined, meats |-> Undefined,
               vegetables |-> Undefined]
NoPayment == [type |-> "undefined", token |-> Undefined, amount |-> Undefined,
              currency |-> undefined]

ArrayOrNot == {Undefined} \cup {Array(k) : k \in 0..MaxToppings}

\* toppings objects: meats and vegetables as the menu names them, and the
\* property "meat" that calculatePrice reads
ToppingsObjects ==
  [type : {"object"}, meat : {Undefined, Array(1)}, meats : ArrayOrNot,
   vegetables : ArrayOrNot]

TokenPrefixLen == 20
TokenSuffixLen == 36
Tokens ==
  {Undefined, String(0), Number(7)} \cup
  {String(TokenPrefixLen + TokenSuffixLen + d) : d \in {-1, 0, 1}}
Amounts == {Undefined} \cup {Number(a) : a \in -1..MaxAmount}
Currencies == {undefined, "", "USD"}

PaymentObjects ==
  [type : {"object"}, token : Tokens, amount : Amounts, currency : Currencies]

\* what JSON.parse returns for a body that is a JSON object
Object(size, sauce, cheese, toppings, payment) ==
  [kind |-> "object", size |-> size, crust |-> undefined, sauce |-> sauce,
   cheese |-> cheese, toppings |-> toppings, payment |-> payment]

\* bodies that vary the pizza (no payment)
PizzaBodies ==
  {Object(sz, sa, ch, t, NoPayment) :
     sz \in sizes \cup {undefined, "", "party"}, sa \in {undefined, "regular", "alfredo"},
     ch \in {undefined, "regular", "extra"},
     t \in {NoToppings} \cup ToppingsObjects}

\* bodies that vary the payment, on a valid and on an invalid pizza
OrderBodies ==
  {Object("medium", "regular", ch, [NoToppings EXCEPT !.type = "object"], p) :
     ch \in {undefined, "extra"}, p \in {NoPayment} \cup PaymentObjects}

\* a body that is missing, is no JSON, or is the JSON text null
OtherBodies ==
  {[Object(undefined, undefined, undefined, NoToppings, NoPayment)
      EXCEPT !.kind = k] : k \in {"absent", "malformed", "null"}}

\* ------------------------------------------------- parsing and validation
\* JSON.parse(event.body || {}) and JSON.parse(event.body): a missing body
\* is parsed as the text "[object Object]" or "undefined", which is no JSON
JSONparse(body) ==
  IF body.kind \in {"absent", "malformed"} THEN Throw("SyntaxError")
  ELSE Value(body)

\* Object.keys(pizza): JSON has no undefined, so a key is there exactly when
\* its value is
PizzaKeys(pizza) ==
  {k \in {"size", "crust", "sauce", "cheese"} : pizza[k] # undefined}
    \cup (IF pizza.toppings.type # "undefined" THEN {"toppings"} ELSE {})
    \cup (IF pizza.payment.type # "undefined" THEN {"payment"} ELSE {})

PaymentKeys(payment) ==
  {k \in {"token", "amount"} : payment[k].type # "undefined"}
    \cup (IF payment.currency # undefined THEN {"currency"} ELSE {})

InvalidPizzaMessage == "ERROR_400_BAD_REQUEST: Invalid pizza provided."

\* validatePizza: returns the 400 envelope for an invalid pizza and nothing
\* for a valid one; Object.keys(null) throws
validatePizza(pizza) ==
  IF pizza.kind = "null" THEN Throw("TypeError")
  ELSE IF \/ Cardinality(PizzaKeys(pizza)) = 0
          \/ FalsyStr(pizza.size) \/ FalsyStr(pizza.sauce) \/ FalsyStr(pizza.cheese)
       THEN Value(Return(400, [message |-> InvalidPizzaMessage]))
       ELSE Value(undefined)

\* ------------------------------------------------- pricing and calories
\* Math.PI, in ten-thousandths
PI == 31416
priceDivisor == 11
pricePerTopping == 2
numFreeToppings == 1
sizeRadius == [small |-> 5, medium |-> 6, large |-> 7, xlarge |-> 8]
sizeBaseCalories ==
  [small |-> 1200, medium |-> 1600, large |-> 2200, xlarge |-> 2600]
meatCalories == 200
vegCalories == 25

\* a number that is NaN, or a value
NaN == [nan |-> TRUE, v |-> 0]
Num(v) == [nan |-> FALSE, v |-> v]

\* (num / den).toFixed(2), as a count of hundredths: the nearest one, for a
\* positive num / den
ToFixed2(num, den) == (2 * 100 * num + den) \div (2 * den)

\* a topping charge that gives no topping away
toppingsPriceOf_noneFree(pizza) ==
  LET counted == pricePerTopping * (LengthOr0(pizza.toppings.meat)
                                    + LengthOr0(pizza.toppings.vegetables))
  IN IF pizza.cheese = "extra" THEN counted + pricePerTopping ELSE counted

\* the topping charge of calculatePrice
toppingsPriceOf(pizza) ==
  LET counted == pricePerTopping * (LengthOr0(pizza.toppings.meat)
                                    + LengthOr0(pizza.toppings.vegetables)
                                    - numFreeToppings)
  IN IF pizza.cheese = "extra" THEN counted + pricePerTopping ELSE counted

\* calculatePrice: the price as toFixed(2) prints it, in hundredths; reading
\* a property of an undefined pizza.toppings throws
calculatePrice(pizza) ==
  IF pizza.toppings.type = "undefined" THEN Throw("TypeError")
  ELSE IF pizza.size \notin DOMAIN sizeRadius THEN Value(NaN)
  ELSE LET radius == sizeRadius[pizza.size]
           \* (Math.PI * radius^2) / priceDivisor + toppingsPrice, as a
           \* fraction over priceDivisor * 10^4
           num == PI * radius * radius
                    + priceDivisor * 10000 * toppingsPriceOf(pizza)
       IN Value(Num(ToFixed2(num, priceDivisor * 10000)))

\* calories that count toppings.meat, the property calculatePrice reads
calculateCalories_meat(pizza) ==
  IF pizza.toppings.type = "undefined" THEN Throw("TypeError")
  ELSE LET numMeatToppings == LengthOr0(pizza.toppings.meat)
           numVegToppings == LengthOr0(pizza.toppings.vegetables)
       IN IF pizza.size \notin DOMAIN sizeBaseCalories THEN Value(NaN)
          ELSE Value(Num(sizeBaseCalories[pizza.size]
                           + meatCalories * numMeatToppings
                           + vegCalories * numVegToppings))

\* calculateCalories
calculateCalories(pizza) ==
  IF pizza.toppings.type = "undefined" THEN Throw("TypeError")
  ELSE LET numMeatToppings == LengthOr0(pizza.toppings.meats)
           numVegToppings == LengthOr0(pizza.toppings.vegetables)
           totalMeatCalories == meatCalories * numMeatToppings
           totalVegCalories == vegCalories * numVegToppings
       IN IF pizza.size \notin DOMAIN sizeBaseCalories THEN Value(NaN)
          ELSE Value(Num(sizeBaseCalories[pizza.size] + totalMeatCalories
                           + totalVegCalories))


\* ------------------------------------------------- requests
Methods == {"GET", "POST", "DELETE"}
OrderIds == 1..MaxOrders
\* a path, by its segments: /order/<id> is <<"order", id>>; no order ever
\* gets the id 0
Paths ==
  {<<"menu">>, <<"customize">>, <<"order">>, <<"example_order">>, <<"nowhere">>}
    \cup {<<"order", i>> : i \in 0..MaxOrders}

\* path === "/<name>"
PathIs(path, name) == Len(path) = 1 /\ path[1] = name
\* path.startsWith("/order/")
StartsWithOrder(path) == Len(path) >= 2 /\ path[1] = "order"
\* path.split("/")[2]
OrderIdOf(path) == path[2]

Event(httpMethod, path, body) ==
  [httpMethod |-> httpMethod, path |-> path, body |-> body]

\* ------------------------------------------------- the state
VARIABLES
  table,     \* the Orders table: "absent" or "active"
  store,     \* the items of the Orders table, by orderId
  issued,    \* the ids crypto.randomUUID has returned
  inflight,  \* per slot: the invocation suspended at an await, or Idle
  out        \* the invocation that finished last, with its outcome

vars == <<table, store, issued, inflight, out>>

Slots == 1..NumSlots
Idle == [pc |-> "idle"]

\* ------------------------------------------------- GET /menu, /example_order
menu ==
  [sizes |-> <<"small", "medium", "large", "xlarge">>,
   crusts |-> <<"regular", "thick", "thin", "stuffed">>,
   sauces |-> <<"regular", "light", "extra", "alfredo">>,
   cheeses |-> <<"regular", "extra", "none", "cheddar">>,
   toppings |->
     [meats |-> <<"pepperoni", "italian sausage", "canadian bacon", "ham",
                  "hamburger", "bacon", "chicken", "salami", "anchovies">>,
      vegetables |-> <<"spinach", "peppers", "mushrooms", "olives", "tomatos",
                       "onions", "jalapenos", "pineapple">>]]

\* the static example; its token is "pizza_payment_token_" and a UUID
exampleOrder ==
  [size |-> "medium", crust |-> "stuffed", sauce |-> "regular",
   cheese |-> "extra",
   toppings |-> [meats |-> Array(1), vegetables |-> Array(2)],
   price |-> Num(1461), calories |-> Num(1850),
   payment |-> [token |-> String(TokenPrefixLen + TokenSuffixLen),
                amount |-> Num(1461), currency |-> "USD"]]

\* ------------------------------------------------- POST /customize
\* JSON.stringify of the echo: a property that is undefined is left out
customizeBody(pizza, calculatedPrice, calculatedCalories) ==
  LET keys == (PizzaKeys(pizza) \ {"payment"}) \cup {"price", "calories"}
  IN [k \in keys |->
        CASE k = "price" -> calculatedPrice
          [] k = "calories" -> calculatedCalories
          [] OTHER -> pizza[k]]

\* lines 47-73: the result of validatePizza is dropped, so that only what
\* it throws changes the course of the handler
customize(event) ==
  LET parsed == JSONparse(event.body) IN
  IF IsThrow(parsed) THEN parsed
  ELSE
    LET pizza == parsed.value
        validated == validatePizza(pizza)
    IN IF IsThrow(validated) THEN validated
       ELSE
         LET calculatedPrice == calculatePrice(pizza) IN
         IF IsThrow(calculatedPrice) THEN calculatedPrice
         ELSE
           LET calculatedCalories == calculateCalories(pizza) IN
           IF IsThrow(calculatedCalories) THEN calculatedCalories
           ELSE Return(200, customizeBody(pizza, calculatedPrice.value,
                                          calculatedCalories.value))

\* ------------------------------------------------- POST /order, to the await
MissingFieldsMessage == "ERROR_400_BAD_REQUEST: Invalid payment information."
InvalidTokenMessage == "ERROR_400_BAD_REQUEST: Invalid payment token."
NonPositiveAmountMessage == "ERROR_400_BAD_REQUEST: Invalid payment amount."

\* a check of the whole token's length, where the code checks what follows the
\* prefix
SubstringLength_whole(token, start) == token.n

\* token.substring(start).length
SubstringLength(token, start) == IF token.n > start THEN token.n - start ELSE 0

\* lines 79-105: parse, validate the pizza (result dropped), validate the
\* payment. Value(pizza) when the request goes on to place the order
orderChecks(event) ==
  LET parsed == JSONparse(event.body) IN
  IF IsThrow(parsed) THEN parsed
  ELSE
    LET pizza == parsed.value IN
    \* pizza.payment of null
    IF pizza.kind = "null" THEN Throw("TypeError")
    ELSE
      LET payment == pizza.payment
          validated == validatePizza(pizza)
      IN IF IsThrow(validated) THEN validated
         \* Object.keys(undefined)
         ELSE IF payment.type = "undefined" THEN Throw("TypeError")
         ELSE IF \/ Cardinality(PaymentKeys(payment)) = 0
                 \/ Falsy(payment.token) \/ Falsy(payment.amount)
                 \/ FalsyStr(payment.currency)
              THEN Return(400, [message |-> MissingFieldsMessage])
         \* a token that is no string has no substring method
         ELSE IF payment.token.type # "string" THEN Throw("TypeError")
         ELSE IF SubstringLength(payment.token, TokenPrefixLen) # TokenSuffixLen
              THEN Return(400, [message |-> InvalidTokenMessage])
         ELSE IF payment.amount.n <= 0
              THEN Return(400, [message |-> NonPositiveAmountMessage])
         ELSE Value(pizza)

\* lines 107-116
Order(orderId, pizza) ==
  [orderId |-> orderId, status |-> "confirmed",
   paidAmount |-> pizza.payment.amount, items |-> pizza]


\* ------------------------------------------------- dispatch
\* the branch of lambdaHandler an event takes, in the order of its tests
route(event) ==
  IF event.httpMethod = "GET" /\ PathIs(event.path, "menu") THEN "menu"
  ELSE IF event.httpMethod = "POST" /\ PathIs(event.path, "customize")
    THEN "customize"
  ELSE IF event.httpMethod = "POST" /\ PathIs(event.path, "order") THEN "order"
  ELSE IF event.httpMethod = "GET" /\ StartsWithOrder(event.path) THEN "getOrder"
  ELSE IF event.httpMethod = "GET" /\ PathIs(event.path, "example_order")
    THEN "example_order"
  ELSE "notFound"

\* what an invocation carries: its event, the order id it generated (0:
\* none) and the calls it made to the store, with their results
Begin(event) == [event |-> event, uuid |-> 0, calls |-> <<>>]

Call(op, result) == [op |-> op, result |-> result]

\* the invocation ends: with its last calls to the store, and an outcome
Finished(ctx, calls, outcome) ==
  [event |-> ctx.event, uuid |-> ctx.uuid, calls |-> ctx.calls \o calls,
   outcome |-> outcome]

\* the invocation waits for the answer to its next call to the store
Suspended(ctx, calls, pc) == [ctx EXCEPT !.pc = pc, !.calls = @ \o calls]

\* an invocation that ends before any call to the store: every branch but
\* GET /order/<id>, and POST /order when the payment does not pass
Respond(event) ==
  /\ route(event) # "getOrder"
  /\ route(event) = "order" => orderChecks(event).kind # "value"
  /\ LET outcome ==
           CASE route(event) = "menu" -> Return(200, [menu |-> menu])
             [] route(event) = "customize" -> customize(event)
             [] route(event) = "order" -> orderChecks(event)
             [] route(event) = "example_order" -> Return(200, exampleOrder)
             [] OTHER -> Return(404, [message |-> "ERROR_404_NOT_FOUND"])
     IN out' = Finished(Begin(event), <<>>, outcome)
  /\ UNCHANGED <<table, store, issued, inflight>>

\* an id generator that can repeat itself
randomUUID_repeating(used) == OrderIds

\* crypto.randomUUID(): an id it has not returned before
randomUUID(used) == OrderIds \ used

\* POST /order with a payment that passes: lines 107-141 and the answer of
\* describeTable (tableExists, lines 140-144 and 162-164). Nothing before the
\* call reads or writes the table
PlaceOrder(s, event) ==
  /\ inflight[s] = Idle
  /\ route(event) = "order"
  /\ orderChecks(event).kind = "value"
  /\ \E orderId \in randomUUID(issued) :
       LET ctx == [pc |-> "describeTable", event |-> event, uuid |-> orderId,
                   calls |-> <<>>,
                   order |-> Order(orderId, orderChecks(event).value)]
       IN
       /\ issued' = issued \cup {orderId}
       /\ \/ /\ table = "active"
             /\ inflight' = [inflight EXCEPT ![s] =
                  Suspended(ctx, <<Call("describeTable", "ok")>>, "put")]
             /\ out' = out
          \/ /\ table = "absent"
             /\ inflight' = [inflight EXCEPT ![s] =
                  Suspended(ctx,
                    <<Call("describeTable", "ResourceNotFoundException")>>,
                    "createTable")]
             /\ out' = out
          \* any other error is thrown again, out of tableExists and out of
          \* the handler
          \/ /\ inflight' = inflight
             /\ out' = Finished(ctx, <<Call("describeTable", "NetworkingError")>>,
                                Throw("NetworkingError"))
  /\ UNCHANGED <<table, store>>

\* the errors createTable can answer with
createTableErrors(t) ==
  {"NetworkingError"}
    \cup (IF t = "active" THEN {"ResourceInUseException"} ELSE {})

\* tableExists, lines 145-161: createTable, in the catch block and in no try
CreateTable(s) ==
  /\ inflight[s].pc = "createTable"
  /\ LET ctx == inflight[s] IN
     \/ /\ table = "absent"
        /\ table' = "active"
        /\ inflight' = [inflight EXCEPT ![s] =
             Suspended(ctx, <<Call("createTable", "ok")>>, "put")]
        /\ out' = out
     \/ \E err \in createTableErrors(table) :
          /\ table' = table
          /\ inflight' = [inflight EXCEPT ![s] = Idle]
          /\ out' = Finished(ctx, <<Call("createTable", err)>>, Throw(err))
  /\ UNCHANGED <<store, issued>>

\* DocumentClient.put: writes the item under its key, replacing any item there
PutItem(items, order) ==
  [i \in DOMAIN items \cup {order.orderId} |->
     IF i = order.orderId THEN order ELSE items[i]]

\* the put of the earlier version of the handler: not awaited, its error
\* only logged, and a 200 either way
Put_notAwaited(s) ==
  /\ inflight[s].pc = "put"
  /\ LET ctx == inflight[s]
         ok == Return(200, [order |-> ctx.order,
                 message |-> "Payment processed successfully and order placed."])
     IN
     \/ /\ table = "active"
        /\ store' = PutItem(store, ctx.order)
        /\ out' = Finished(ctx, <<Call("put", "ok")>>, ok)
     \/ /\ store' = store
        /\ out' = Finished(ctx, <<Call("put", "NetworkingError")>>, ok)
  /\ inflight' = [inflight EXCEPT ![s] = Idle]
  /\ UNCHANGED <<table, issued>>

\* lines 170-190: the awaited put, and the response
Put(s) ==
  /\ inflight[s].pc = "put"
  /\ LET ctx == inflight[s] IN
     \/ /\ table = "active"
        /\ store' = PutItem(store, ctx.order)
        /\ out' = Finished(ctx, <<Call("put", "ok")>>,
             Return(200, [order |-> ctx.order,
                          message |-> "Payment processed successfully and order placed."]))
     \/ /\ store' = store
        /\ out' = Finished(ctx, <<Call("put", "NetworkingError")>>,
             Return(500, [message |-> "ERROR_500_INTERNAL: Failed to write order."]))
  /\ inflight' = [inflight EXCEPT ![s] = Idle]
  /\ UNCHANGED <<table, issued>>

\* DocumentClient.get: {Item} when there is an item under the key, {} if not
GetItem(items, orderId) ==
  IF orderId \in DOMAIN items THEN [Item |-> items[orderId]] ELSE [none |-> TRUE]

\* an answer that always carries an order property
getOrderBody_keepsOrder(result) ==
  [message |-> "Retrieved Order Details Successfully",
   order |-> IF "Item" \in DOMAIN result THEN result.Item ELSE Idle]

\* lines 210-231: order stays undefined unless result.Item is there, and
\* JSON.stringify leaves an undefined order out
getOrderBody(result) ==
  IF "Item" \in DOMAIN result
  THEN [message |-> "Retrieved Order Details Successfully", order |-> result.Item]
  ELSE [message |-> "Retrieved Order Details Successfully"]

\* GET /order/<id>: lines 193-231, with the answer of get. An error of get is
\* logged, and the response is the one for an order that is not there
GetOrder(event) ==
  /\ route(event) = "getOrder"
  /\ \/ /\ table = "active"
        /\ out' = Finished(Begin(event), <<Call("get", "ok")>>,
             Return(200, getOrderBody(GetItem(store, OrderIdOf(event.path)))))
     \/ out' = Finished(Begin(event), <<Call("get", "NetworkingError")>>,
             Return(200, getOrderBody([none |-> TRUE])))
  /\ UNCHANGED <<table, store, issued, inflight>>

\* ------------------------------------------------- specifications
NoEvent == Event("NONE", <<"none">>, [kind |-> "absent"])

\* an event the transport has for the handler, not yet answered
Pending(event) == Finished(Begin(event), <<>>, [kind |-> "none"])

Init ==
  /\ table \in {"absent", "active"}
  /\ store = [i \in {} |-> Idle]
  /\ issued = {}
  /\ inflight = [s \in Slots |-> Idle]
  /\ out = Pending(NoEvent)

ValidPizza(payment) ==
  Object("medium", "regular", "extra", [NoToppings EXCEPT !.type = "object"],
         payment)
Payment(token, amount) ==
  [type |-> "object", token |-> token, amount |-> Number(amount),
   currency |-> "USD"]
GoodToken == String(TokenPrefixLen + TokenSuffixLen)

\* the bodies of requests that reach the store (a valid pizza, and one without
\* cheese, with a payment that passes), and of two that do not
StoreBodies ==
  {ValidPizza(Payment(GoodToken, 1)),
   [ValidPizza(Payment(GoodToken, MaxAmount)) EXCEPT !.cheese = undefined],
   ValidPizza(Payment(String(0), 1)), ValidPizza(NoPayment)}

StoreEvents ==
  {Event("POST", <<"order">>, b) : b \in StoreBodies}
    \cup {Event("GET", <<"order", i>>, b) :
            i \in 0..MaxOrders, b \in {x \in OtherBodies : x.kind = "absent"}}

\* requests to /order and /order/<id>, any number of them at once
Next ==
  \/ \E e \in StoreEvents : Respond(e)
  \/ \E e \in StoreEvents : GetOrder(e)
  \/ \E s \in Slots, e \in StoreEvents : PlaceOrder(s, e)
  \/ \E s \in Slots : CreateTable(s)
  \/ \E s \in Slots : Put(s)

Spec == Init /\ [][Next]_vars

\* every request, each handled alone from the empty store
Bodies == PizzaBodies \cup OrderBodies \cup OtherBodies
Events == {Event(m, p, b) : m \in Methods, p \in Paths, b \in Bodies}

InitRequests ==
  /\ table \in {"absent", "active"}
  /\ store = [i \in {} |-> Idle]
  /\ issued = {}
  /\ inflight = [s \in Slots |-> Idle]
  /\ \E e \in Events : out = Pending(e)

NextRequests ==
  \/ out.outcome.kind = "none" /\ Respond(out.event)
  \/ out.outcome.kind = "none" /\ GetOrder(out.event)
  \/ out.outcome.kind = "none" /\ PlaceOrder(1, out.event)
  \/ CreateTable(1)
  \/ Put(1)

SpecRequests == InitRequests /\ [][NextRequests]_vars


\* ------------------------------------------------- properties
\* the last invocation has been answered (or has thrown)
Answered == out.outcome.kind # "none"
Responded(statusCode) ==
  out.outcome.kind = "response" /\ out.outcome.statusCode = statusCode
RespondedWith(statusCode, message) ==
  /\ Responded(statusCode)
  /\ "message" \in DOMAIN out.outcome.body
  /\ out.outcome.body.message = message

\* a parsed body that is an invalid pizza: no keys, or size, sauce or cheese
\* missing or empty
InvalidPizza(pizza) ==
  /\ pizza.kind = "object"
  /\ \/ pizza.size \in {undefined, ""}
     \/ pizza.sauce \in {undefined, ""}
     \/ pizza.cheese \in {undefined, ""}
IsValidPizza(pizza) == pizza.kind = "object" /\ ~InvalidPizza(pizza)

\* the three payment checks, as the specification words them
MissingFields(p) ==
  \/ p.token \in {Undefined, String(0), Number(0)}
  \/ p.amount \in {Undefined, Number(0)}
  \/ p.currency \in {undefined, ""}
InvalidToken(p) == p.token.n # 56
NonPositiveAmount(p) == p.amount.n <= 0
PaymentFails(p) ==
  p.type = "undefined" \/ MissingFields(p) \/ InvalidToken(p)
    \/ NonPositiveAmount(p)

\* C1: every POST /customize whose parsed body is an invalid pizza is answered
\* 400, with no price and no calories in the body.
C1_InvalidPizzaIs400 ==
  (Answered /\ route(out.event) = "customize" /\ InvalidPizza(out.event.body))
    => /\ Responded(400)
       /\ "price" \notin DOMAIN out.outcome.body
       /\ "calories" \notin DOMAIN out.outcome.body

\* C2: a POST /order (with a payment object) whose pizza or payment fails
\* validation is answered 400, generates no order id and makes no call to the
\* store; no invocation with such a body is ever waiting for the store, and no
\* order with an invalid pizza is ever stored.
C2_InvalidOrderStopsEarly ==
  /\ (Answered /\ route(out.event) = "order"
        /\ out.event.body.kind = "object"
        /\ out.event.body.payment.type = "object"
        /\ (InvalidPizza(out.event.body) \/ PaymentFails(out.event.body.payment)))
       => (Responded(400) /\ out.uuid = 0 /\ out.calls = <<>>)
  /\ \A s \in Slots :
       inflight[s] # Idle =>
         /\ ~InvalidPizza(inflight[s].event.body)
         /\ ~PaymentFails(inflight[s].event.body.payment)
  /\ \A i \in DOMAIN store : ~InvalidPizza(store[i].items)

\* a call to the store that failed; describeTable answering that there is no
\* table is an answer, not a failure
FailedCall(c) ==
  /\ c.result # "ok"
  /\ ~(c.op = "describeTable" /\ c.result = "ResourceNotFoundException")

\* C3: a POST /order that passes both validations and meets a failure of the
\* store (describeTable, createTable or put) is answered 500: never 200, and
\* nothing is thrown.
C3_StoreFailureIs500 ==
  (/\ Answered /\ route(out.event) = "order"
   /\ IsValidPizza(out.event.body)
   /\ ~PaymentFails(out.event.body.payment)
   /\ \E k \in 1..Len(out.calls) : FailedCall(out.calls[k]))
    => Responded(500)

\* C4: every request ends with a response envelope, nothing is thrown; a body
\* that is no JSON on POST /customize or POST /order is answered 400.
C4_AlwaysAnEnvelope ==
  Answered =>
    /\ out.outcome.kind = "response"
    /\ (/\ out.event.body.kind = "malformed"
        /\ route(out.event) \in {"customize", "order"}) => Responded(400)

\* the payments C5 speaks of: an object whose token, if there is one, is text
C5_Covered(e) ==
  /\ route(e) = "order"
  /\ IsValidPizza(e.body)
  /\ e.body.payment.type = "object"
  /\ e.body.payment.token.type # "number"

\* C5: on POST /order with a valid pizza the payment checks run in the order
\* MissingFields, InvalidToken, NonPositiveAmount; the 400 carries the message
\* of the first one that fails, the three messages differ, and a payment that
\* fails none is accepted (the order gets its id and the store is called).
C5_PaymentChecksInOrder ==
  /\ Cardinality({MissingFieldsMessage, InvalidTokenMessage,
                  NonPositiveAmountMessage}) = 3
  /\ (Answered /\ C5_Covered(out.event)) =>
       LET p == out.event.body.payment IN
       IF MissingFields(p) THEN RespondedWith(400, MissingFieldsMessage)
       ELSE IF InvalidToken(p) THEN RespondedWith(400, InvalidTokenMessage)
       ELSE IF NonPositiveAmount(p)
         THEN RespondedWith(400, NonPositiveAmountMessage)
       ELSE out.uuid # 0 /\ out.calls # <<>> /\ ~Responded(400)
  /\ \A s \in Slots :
       (inflight[s] # Idle /\ C5_Covered(inflight[s].event)) =>
         ~PaymentFails(inflight[s].event.body.payment)

\* a payment that fails two checks is answered for the first: a token of the
\* wrong length with a negative amount
C5_Witness ==
  /\ Answered /\ C5_Covered(out.event)
  /\ ~MissingFields(out.event.body.payment)
  /\ InvalidToken(out.event.body.payment)
  /\ NonPositiveAmount(out.event.body.payment)
  /\ RespondedWith(400, InvalidTokenMessage)

\* C6: with a valid pizza, a token of 56 characters and a currency, every
\* amount that is 0 or negative is answered with the NonPositiveAmount error.
C6_NonPositiveAmountRejected ==
  (/\ Answered /\ route(out.event) = "order" /\ IsValidPizza(out.event.body)
   /\ out.event.body.payment.type = "object"
   /\ out.event.body.payment.token = String(56)
   /\ out.event.body.payment.currency \notin {undefined, ""}
   /\ out.event.body.payment.amount.type = "number"
   /\ out.event.body.payment.amount.n <= 0)
    => RespondedWith(400, NonPositiveAmountMessage)

\* the step is a POST /order answered 200
OrderPlaced ==
  /\ \E s \in Slots : inflight[s].pc = "put" /\ inflight'[s] = Idle
  /\ out'.outcome.kind = "response" /\ out'.outcome.statusCode = 200

\* what is stored stays, as it is
StoreKept == \A i \in DOMAIN store : i \in DOMAIN store' /\ store'[i] = store[i]

\* C7: every successful POST /order adds exactly one order to the store,
\* under an id no earlier order has; a stored order never changes and never
\* goes away, and nothing else adds to the store.
C7_OneNewOrderEach ==
  [][/\ StoreKept
     /\ OrderPlaced =>
          /\ out'.uuid \notin DOMAIN store
          /\ DOMAIN store' = DOMAIN store \cup {out'.uuid}
          /\ store'[out'.uuid].orderId = out'.uuid
     /\ ~OrderPlaced => store' = store]_vars

\* the same body was submitted twice, and both orders are in the store
C7_Witness ==
  \E i, j \in DOMAIN store : i # j /\ store[i].items = store[j].items

\* the step is a GET /order/<id> answered
OrderRead ==
  /\ out' # out
  /\ route(out'.event) = "getOrder"

\* the response of the step carries this order
Carries(order) ==
  /\ out'.outcome.kind = "response" /\ out'.outcome.statusCode = 200
  /\ "order" \in DOMAIN out'.outcome.body
  /\ out'.outcome.body.order = order

\* a 200 of POST /order: the put is done, and the order is the confirmed one
\* with the amount of the payment
C8_PlacedIsStored ==
  OrderPlaced =>
    /\ out'.calls[Len(out'.calls)] = Call("put", "ok")
    /\ out'.outcome.body.order.orderId \in DOMAIN store'
    /\ store'[out'.outcome.body.order.orderId] = out'.outcome.body.order
    /\ out'.outcome.body.order.status = "confirmed"
    /\ out'.outcome.body.order.paidAmount = out'.event.body.payment.amount

C9_UnknownIdIs200NoOrder ==
  [][(OrderRead /\ OrderIdOf(out'.event.path) \notin DOMAIN store)
       => /\ out'.outcome.kind = "response"
          /\ out'.outcome.statusCode = 200
          /\ "order" \notin DOMAIN out'.outcome.body
          /\ store' = store]_vars

\* a GET for an id that is not in the store was answered from a table that
\* holds another order
C9_Witness ==
  /\ Answered /\ route(out.event) = "getOrder"
  /\ out.calls = <<Call("get", "ok")>>
  /\ DOMAIN store # {}
  /\ OrderIdOf(out.event.path) \notin DOMAIN store
  /\ "order" \notin DOMAIN out.outcome.body

\* the base price of a size, pi * radius^2 / 11 to two decimals, in hundredths
C10_BasePrice == [small |-> 714, medium |-> 1028, large |-> 1399, xlarge |-> 1828]

\* C10: for a valid pizza with m meats and v vegetables the price is the base
\* price of its size plus 2 * (m + v - 1), plus 2 for extra cheese, to two
\* decimals: every entry of toppings.meats counts.
C10_PriceCountsMeats ==
  (/\ Answered /\ route(out.event) = "customize"
   /\ IsValidPizza(out.event.body)
   /\ out.event.body.size \in sizes
   /\ out.event.body.toppings.type = "object")
    => LET pizza == out.event.body
           m == LengthOr0(pizza.toppings.meats)
           v == LengthOr0(pizza.toppings.vegetables)
           charge == 2 * (m + v - 1) + (IF pizza.cheese = "extra" THEN 2 ELSE 0)
       IN /\ Responded(200)
          /\ out.outcome.body.price = Num(C10_BasePrice[pizza.size] + 100 * charge)


\* the request of the end-to-end example: {size: "large", sauce: "alfredo",
\* cheese: "regular", toppings: {meats: [], vegetables: ["peppers"]}}
C11_Event ==
  Event("POST", <<"customize">>,
        Object("large", "alfredo", "regular",
               [type |-> "object", meat |-> Undefined, meats |-> Array(0),
                vegetables |-> Array(1)],
               NoPayment))

\* C11, as claimed: the example is answered 200 with price 12.00 and
\* calories 2225.
C11_ExampleCosts1200 ==
  (Answered /\ out.event = C11_Event)
    => /\ Responded(200)
       /\ out.outcome.body.price = Num(1200)
       /\ out.outcome.body.calories = Num(2225)

\* C11, amended: the example is answered 200 with price 13.99 (the one
\* vegetable is the free topping, so nothing is added to or taken from the
\* base price pi * 49 / 11) and calories 2225.
C11_ExampleCosts1399 ==
  (Answered /\ out.event = C11_Event)
    => /\ Responded(200)
       /\ out.outcome.body.price = Num(1399)
       /\ out.outcome.body.calories = Num(2225)
       /\ out.outcome.body.size = "large"
       /\ out.outcome.body.sauce = "alfredo"
       /\ out.outcome.body.cheese = "regular"

\* the example has been answered
C11_Witness == Answered /\ out.event = C11_Event /\ Responded(200)


\* the base calories of a size
C12_Base == [small |-> 1200, medium |-> 1600, large |-> 2200, xlarge |-> 2600]

\* the pizzas C12 speaks of: a size of the menu and a toppings object, in
\* which either list may be missing
C12_Covered(e) ==
  /\ route(e) = "customize"
  /\ e.body.kind = "object"
  /\ e.body.size \in {"small", "medium", "large", "xlarge"}
  /\ e.body.toppings.type = "object"

\* the number of entries of a list, 0 for a list that is not there
C12_Count(list) == IF list.type = "array" THEN list.n ELSE 0

\* C12: for a pizza of size small, medium, large or xlarge with m meats and v
\* vegetables (a missing list counts 0) the calories are the base of the size
\* (1200, 1600, 2200, 2600) + 200 * m + 25 * v; medium with 1 meat and 2
\* vegetables gives 1850.
C12_CaloriesByCount ==
  (Answered /\ C12_Covered(out.event))
    => LET pizza == out.event.body
           m == C12_Count(pizza.toppings.meats)
           v == C12_Count(pizza.toppings.vegetables)
       IN /\ Responded(200)
          /\ out.outcome.body.calories = Num(C12_Base[pizza.size] + 200 * m + 25 * v)
          /\ (pizza.size = "medium" /\ m = 1 /\ v = 2)
               => out.outcome.body.calories = Num(1850)

\* medium with 1 meat and 2 vegetables has been answered with 1850 calories
C12_Witness ==
  /\ Answered /\ C12_Covered(out.event) /\ Responded(200)
  /\ out.event.body.size = "medium"
  /\ out.event.body.toppings.meats = Array(1)
  /\ out.event.body.toppings.vegetables = Array(2)
  /\ out.outcome.body.calories = Num(1850)


\* a valid POST /order has ended, and the store answered none of its calls
\* with a failure of its own (the network, the service)
C13_Covered ==
  /\ Answered /\ route(out.event) = "order"
  /\ IsValidPizza(out.event.body)
  /\ ~PaymentFails(out.event.body.payment)
  /\ \A k \in 1..Len(out.calls) : out.calls[k].result # "NetworkingError"

\* C13: with the store itself never failing, every valid POST /order, in every
\* interleaving with the others and also when the Orders table is not there at
\* the start, ends with a 200 and its order in the store under its own id:
\* none throws because another request created the table first.
C13_BootstrapIsIdempotent ==
  C13_Covered
    => /\ Responded(200)
       /\ out.uuid \in DOMAIN store
       /\ store[out.uuid] = out.outcome.body.order


====
